---- MODULE Spec2Model ----
(***************************************************************************)
(* Model of the FRITZ!Box login handshake of package fritz                 *)
(* (src/fritz/fritzclient.go): Client.Login, obtainChallenge,              *)
(* solveChallenge, sendResponse, calculatePBKDF2Response and               *)
(* calculateMD5Response.                                                   *)
(*                                                                         *)
(* A Go string is a sequence of one-character strings, a []byte a sequence *)
(* of numbers.  The digest primitives (pbkdf2.Key, md5) are library code:  *)
(* a digest is represented by the canonical, bracketed listing of its      *)
(* inputs, so two digests are equal exactly when their inputs are          *)
(* (collision freedom); the bracket marks are numbers above 255.           *)
(***************************************************************************)
EXTENDS Integers, Sequences, FiniteSets, TLC

\* ------------------------------------------------------------------ bounds
\* Largest BlockTime (seconds) the device answers with.
MaxBlockTime == 2

\* Number of SessionInfo records that are ever constructed, i.e. the number
\* of Login calls of a run.
MaxLogins == 2

\* ----------------------------------------------------------- Go strings
Range(f) == {f[i] : i \in DOMAIN f}

\* strings.HasPrefix
HasPrefix(s, prefix) ==
  /\ Len(s) >= Len(prefix)
  /\ SubSeq(s, 1, Len(prefix)) = prefix

\* Index of the first occurrence of the character sep in s, 0 when absent.
IndexOf(s, sep) ==
  IF \E i \in 1..Len(s) : s[i] = sep
  THEN CHOOSE i \in 1..Len(s) : s[i] = sep /\ \A j \in 1..(i - 1) : s[j] # sep
  ELSE 0

\* strings.Split(s, sep) for a one-character separator: always at least one
\* field, n separators give n+1 fields, empty fields are kept.
RECURSIVE Split(_, _)
Split(s, sep) ==
  LET i == IndexOf(s, sep)
  IN IF i = 0 THEN <<s>>
     ELSE <<SubSeq(s, 1, i - 1)>> \o Split(SubSeq(s, i + 1, Len(s)), sep)

Digits == <<"0", "1", "2", "3", "4", "5", "6", "7", "8", "9">>

IsDigit(c) == \E i \in 1..10 : Digits[i] = c

DigitVal(c) == (CHOOSE i \in 1..10 : Digits[i] = c) - 1

RECURSIVE DecimalVal(_)
DecimalVal(s) ==
  IF s = <<>> THEN 0
  ELSE 10 * DecimalVal(SubSeq(s, 1, Len(s) - 1)) + DigitVal(s[Len(s)])

\* strconv.Atoi: an optional sign, then one or more decimal digits.  The
\* iteration counts of the model are short, so the range error of Atoi is
\* not reachable.
Atoi(s) ==
  LET signed == s # <<>> /\ s[1] \in {"+", "-"}
      body == IF signed THEN Tail(s) ELSE s
  IN IF body = <<>> \/ \E i \in 1..Len(body) : ~IsDigit(body[i])
     THEN [ok |-> FALSE, val |-> 0]
     ELSE [ok |-> TRUE,
           val |-> IF signed /\ s[1] = "-" THEN 0 - DecimalVal(body)
                   ELSE DecimalVal(body)]

HexLower == <<"0", "1", "2", "3", "4", "5", "6", "7", "8", "9",
              "a", "b", "c", "d", "e", "f">>

HexUpper == <<"0", "1", "2", "3", "4", "5", "6", "7", "8", "9",
              "A", "B", "C", "D", "E", "F">>

IsHexChar(c) == \E i \in 1..16 : HexLower[i] = c \/ HexUpper[i] = c

HexVal(c) == (CHOOSE i \in 1..16 : HexLower[i] = c \/ HexUpper[i] = c) - 1

\* hex.DecodeString: fails on a character that is no hex digit and on an odd
\* length; both letter cases decode to the same byte.
DecodeString(s) ==
  IF (\E i \in 1..Len(s) : ~IsHexChar(s[i])) \/ Len(s) % 2 = 1
  THEN [ok |-> FALSE, bytes |-> <<>>]
  ELSE [ok |-> TRUE,
        bytes |-> [i \in 1..(Len(s) \div 2) |->
                     16 * HexVal(s[2 * i - 1]) + HexVal(s[2 * i])]]

\* Marks of the digest representation.
KeyOpen == 256
KeySep == 257
KeyClose == 258
SumOpen == 259
SumClose == 260

MarkChar(b) ==
  CASE b = KeyOpen -> "{"
    [] b = KeySep -> "|"
    [] b = KeyClose -> "}"
    [] b = SumOpen -> "["
    [] OTHER -> "]"

\* hex.EncodeToString and the %x verb: two lowercase hex digits per byte.
RECURSIVE EncodeToString(_)
EncodeToString(b) ==
  IF b = <<>> THEN <<>>
  ELSE (IF b[1] < 256
        THEN <<HexLower[(b[1] \div 16) + 1], HexLower[(b[1] % 16) + 1]>>
        ELSE <<MarkChar(b[1])>>) \o EncodeToString(Tail(b))

\* Character codes of the characters the model's strings are made of.
Ord(c) ==
  CASE c = "$" -> 36
    [] c = "+" -> 43
    [] c = "-" -> 45
    [] IsDigit(c) -> 48 + DigitVal(c)
    [] \E i \in 11..16 : HexUpper[i] = c -> 55 + HexVal(c)
    [] \E i \in 11..16 : HexLower[i] = c -> 87 + HexVal(c)
    [] c = "g" -> 103
    [] c = "p" -> 112
    [] c = "w" -> 119
    [] OTHER -> 120

\* []byte(s)
ToBytes(s) == [i \in 1..Len(s) |-> Ord(s[i])]

\* sha256.Size
Sha256Size == 32

\* pbkdf2.Key(password, salt, iter, keyLen, sha256.New): the derived key as
\* the listing of its inputs.  The library runs its round loop from 2 to
\* iter, so every iter below 1 derives the key of iter = 1.
Key(password, salt, iter, keyLen) ==
  <<KeyOpen>> \o password \o <<KeySep>> \o salt
    \o <<KeySep, IF iter < 1 THEN 1 ELSE iter, KeySep, keyLen, KeyClose>>

\* md5: hasher.Write(data); hasher.Sum(nil)
Md5Sum(data) == <<SumOpen>> \o data \o <<SumClose>>

\* ------------------------------------------------------------ the hashers
\* calculatePBKDF2Response(challenge, password)
calculatePBKDF2Response(challenge, password) ==
  LET parts == Split(challenge, "$")
      Fail(msg) == [ok |-> FALSE, response |-> <<>>, msg |-> msg]
  IN IF Len(parts) < 5 THEN Fail("invalid PBKDF2 challenge format")
     ELSE LET iter1 == Atoi(parts[2])
              salt1 == DecodeString(parts[3])
              iter2 == Atoi(parts[4])
              salt2 == DecodeString(parts[5])
              hash1 == Key(ToBytes(password), salt1.bytes, iter1.val, Sha256Size)
              hash2 == Key(hash1, salt2.bytes, iter2.val, Sha256Size)
          IN IF ~iter1.ok THEN Fail("invalid iteration count")
             ELSE IF ~salt1.ok THEN Fail("invalid salt1")
             ELSE IF ~iter2.ok THEN Fail("invalid iteration count")
             ELSE IF ~salt2.ok THEN Fail("invalid salt2")
             ELSE [ok |-> TRUE,
                   response |-> parts[5] \o <<"$">> \o EncodeToString(hash2),
                   msg |-> ""]

\* calculateMD5Response hashing challenge and password without the "-".
calculateMD5Response_NoDash(challenge, password) ==
  LET response == challenge \o password
      encoded == ToBytes(response)
      hash == EncodeToString(Md5Sum(encoded))
  IN challenge \o <<"-">> \o hash

\* calculateMD5Response(challenge, password)
calculateMD5Response(challenge, password) ==
  LET response == challenge \o <<"-">> \o password
      encoded == ToBytes(response)
      hash == EncodeToString(Md5Sum(encoded))
  IN challenge \o <<"-">> \o hash

\* ------------------------------------------------------------- the inputs
\* Challenges the device may issue: legacy tokens (one of them beginning
\* with "2" but not with "2$", one empty), well-formed modern challenges
\* with lower and upper case salts, and modern-prefixed challenges that are
\* short, long, or carry a bad iteration count or salt.
LegacyChallenges ==
  { <<"1", "a">>,
    <<"2", "f">>,
    <<>> }

ModernChallenges ==
  { <<"2", "$", "1", "$", "a", "b", "$", "2", "$", "c", "d">>,
    <<"2", "$", "2", "$", "5", "A", "$", "1", "$", "7", "C">>,
    <<"2", "$", "1", "$", "a", "b">>,
    <<"2", "$", "x", "$", "a", "b", "$", "1", "$", "c", "d">>,
    <<"2", "$", "1", "$", "a", "g", "$", "1", "$", "c", "d">>,
    <<"2", "$", "1", "$", "a", "b", "$", "1", "$", "c">>,
    <<"2", "$", "1", "$", "a", "b", "$", "1", "$", "c", "d", "$", "e", "f">>,
    <<"2", "$", "0", "$", "a", "b", "$", "-", "1", "$", "c", "d">> }

Challenges == LegacyChallenges \cup ModernChallenges

Passwords == { <<"p", "w">>, <<"p">> }

\* SID: "0000000000000000" is considered invalid/"no session".
ZeroSID == "0000000000000000"

\* Session ids in the answer to the challenge fetch.
FetchSIDs == { ZeroSID, "9f8e7d6c5b4a3918" }

\* Session ids in the answer to the credential submission.
SubmitSIDs == { "", ZeroSID, "0000000000000001", "a1b2c3d4e5f60718" }

\* HTTP status codes of an answer.
StatusOK == 200
StatusForbidden == 403
Statuses == { StatusOK, StatusForbidden }

\* An answer of the device to one HTTP call: whether the round trip worked
\* (net), whether the body could be read (read), the status code, whether the
\* body is well-formed XML (xml) and the elements of the body.
Reply(net, read, status, xml, challenge, blockTime, sid) ==
  [net |-> net, read |-> read, status |-> status, xml |-> xml,
   Challenge |-> challenge, BlockTime |-> blockTime, SID |-> sid]

FailedReplies ==
  { Reply(FALSE, FALSE, StatusOK, FALSE, <<>>, 0, ""),
    Reply(TRUE, FALSE, StatusOK, FALSE, <<>>, 0, "") }
  \cup { Reply(TRUE, TRUE, st, FALSE, <<>>, 0, "") : st \in Statuses }

GetReplies ==
  FailedReplies \cup
  { Reply(TRUE, TRUE, st, TRUE, ch, bt, s) :
      st \in Statuses, ch \in Challenges, bt \in 0..MaxBlockTime, s \in FetchSIDs }

PostReplies ==
  FailedReplies \cup
  { Reply(TRUE, TRUE, st, TRUE, <<>>, 0, s) : st \in Statuses, s \in SubmitSIDs }

\* --------------------------------------------------------------- errors
\* An error is the chain of its messages, outermost first, and the values
\* formatted into it.  The nil error has an empty chain.
Nil == [chain |-> <<>>, arg |-> <<>>]

Errorf(msg, arg) == [chain |-> <<msg>>, arg |-> arg]

\* errors.Wrapf(err, msg) and fmt.Errorf(msg + ": %w", err)
Wrapf(err, msg) == [chain |-> <<msg>> \o err.chain, arg |-> err.arg]

\* ------------------------------------------------------------ transport
\* SessionInfo (Rights are not read by the handshake and are left out).
SessionInfo(challenge, sid, blockTime, isPBKDF2) ==
  [Challenge |-> challenge, SID |-> sid, BlockTime |-> blockTime,
   IsPBKDF2 |-> isPBKDF2]

\* The zero value of SessionInfo.
ZeroSessionInfo == SessionInfo(<<>>, "", 0, FALSE)

\* httpread.XML(getRemote, &sessionInfo): fails on a network failure, on a
\* non-2xx status, on an unreadable body and on undecodable XML; otherwise it
\* decodes the body into the target.
httpreadXML(reply) ==
  IF ~reply.net THEN [err |-> Errorf("error obtaining HTTP response", <<>>),
                      v |-> ZeroSessionInfo]
  ELSE IF reply.status \div 100 # 2
       THEN [err |-> Errorf("HTTP status code error", <<>>), v |-> ZeroSessionInfo]
  ELSE IF ~reply.read \/ ~reply.xml
       THEN [err |-> Errorf("unable to decode remote response", <<>>),
             v |-> ZeroSessionInfo]
  ELSE [err |-> Nil,
        v |-> SessionInfo(reply.Challenge, reply.SID, reply.BlockTime, FALSE)]

\* obtainChallenge testing the prefix "2" instead of "2$".
obtainChallenge_LoosePrefix(reply) ==
  LET r == httpreadXML(reply)
  IN [sessionInfo |-> [r.v EXCEPT !.IsPBKDF2 = HasPrefix(r.v.Challenge, <<"2">>)],
      err |-> r.err]

\* Client.obtainChallenge: the decoded record with its algorithm flag, and the
\* error of the fetch.
obtainChallenge(reply) ==
  LET r == httpreadXML(reply)
  IN [sessionInfo |-> [r.v EXCEPT !.IsPBKDF2 = HasPrefix(r.v.Challenge, <<"2", "$">>)],
      err |-> r.err]

\* Client.sendResponse: the session id of the answer to the POST; the status
\* code of the answer is not looked at.
sendResponse(reply) ==
  IF ~reply.net THEN [sid |-> "", err |-> Errorf("failed to send response", <<>>)]
  ELSE IF ~reply.read
       THEN [sid |-> "", err |-> Errorf("failed to read response body", <<>>)]
  ELSE IF ~reply.xml THEN [sid |-> "", err |-> Errorf("failed to parse XML", <<>>)]
  ELSE [sid |-> reply.SID, err |-> Nil]

\* ------------------------------------------------------------------- TLS
\* The certificate file Pki.CertificateFile names: whether ioutil.ReadFile
\* can read it and whether AppendCertsFromPEM finds a certificate in it.
CertFile(readable, pem) == [readable |-> readable, pem |-> pem]

CertFiles == { CertFile(FALSE, FALSE), CertFile(TRUE, FALSE), CertFile(TRUE, TRUE) }

\* config.Pki
Pki(skipTLSVerify, certificateFile) ==
  [SkipTLSVerify |-> skipTLSVerify, CertificateFile |-> certificateFile]

Pkis == { Pki(skip, file) : skip \in BOOLEAN, file \in CertFiles }

\* A nil *x509.CertPool: the host's root certificates are used.
HostPool == "host root CA set"

\* The pool holding the certificates of the certificate file.
FilePool == "certificate file"

\* buildCertPool that does not look at SkipTLSVerify.
buildCertPool_NoSkip(cfgPki) ==
  IF ~cfgPki.CertificateFile.readable THEN HostPool
  ELSE IF ~cfgPki.CertificateFile.pem THEN HostPool
  ELSE FilePool

\* buildCertPool(cfg)
buildCertPool(cfgPki) ==
  IF cfgPki.SkipTLSVerify THEN HostPool
  ELSE IF ~cfgPki.CertificateFile.readable THEN HostPool
  ELSE IF ~cfgPki.CertificateFile.pem THEN HostPool
  ELSE FilePool

\* tlsConfigFrom(cfg)
tlsConfigFrom(cfgPki) ==
  LET caCertPool == buildCertPool(cfgPki)
  IN [InsecureSkipVerify |-> cfgPki.SkipTLSVerify, RootCAs |-> caCertPool]

\* ------------------------------------------------------------ thermostat
\* A float64 is counted in halves, f*0.5 in quarters: the raw values of the
\* model are decimal numbers with at most the fraction .0 or .5, which this
\* represents exactly.  Other spellings strconv.ParseFloat accepts
\* (exponents, "NaN", "Inf", hexadecimal) are not among the raw values.
Halves(n) == 2 * n

\* strconv.ParseFloat(s, 64): the value in halves, or an error.
ParseFloat(s) ==
  LET signed == s # <<>> /\ s[1] \in {"+", "-"}
      body == IF signed THEN Tail(s) ELSE s
      dot == IndexOf(body, ".")
      whole == IF dot = 0 THEN body ELSE SubSeq(body, 1, dot - 1)
      frac == IF dot = 0 THEN <<>> ELSE SubSeq(body, dot + 1, Len(body))
      magnitude == Halves(DecimalVal(whole)) + (IF frac = <<"5">> THEN 1 ELSE 0)
  IN IF \/ whole = <<>>
        \/ \E i \in 1..Len(whole) : ~IsDigit(whole[i])
        \/ frac \notin {<<>>, <<"0">>, <<"5">>}
     THEN [ok |-> FALSE, f |-> 0]
     ELSE [ok |-> TRUE,
           f |-> IF signed /\ s[1] = "-" THEN 0 - magnitude ELSE magnitude]

\* The decimal digits of a natural number.
RECURSIVE Itoa(_)
Itoa(n) ==
  IF n < 10 THEN <<Digits[n + 1]>>
  ELSE Itoa(n \div 10) \o <<Digits[(n % 10) + 1]>>

\* strconv.FormatFloat(f*0.5, 'f', -1, 64) of a value f in halves: the
\* shortest decimal spelling of f/4 quarters.
FormatHalf(f) ==
  LET a == IF f < 0 THEN 0 - f ELSE f
      fraction == CASE a % 4 = 0 -> <<>>
                    [] a % 4 = 1 -> <<".", "2", "5">>
                    [] a % 4 = 2 -> <<".", "5">>
                    [] OTHER -> <<".", "7", "5">>
  IN (IF f < 0 THEN <<"-">> ELSE <<>>) \o Itoa(a \div 4) \o fraction

\* cappedRawTemperature that caps every value above max.
cappedRawTemperature_NoSpecial(v, min, max) ==
  IF v > max THEN max
  ELSE IF v < min THEN min
  ELSE v

\* cappedRawTemperature(v, min, max)
cappedRawTemperature(v, min, max) ==
  IF v > max /\ v < Halves(253) THEN max
  ELSE IF v < min THEN min
  ELSE v

\* fmtTemperatureHkr(th, min, max)
fmtTemperatureHkr(th, min, max) ==
  LET r == ParseFloat(th)
      f == cappedRawTemperature(r.f, min, max)
  IN IF ~r.ok THEN <<>>
     ELSE IF f = Halves(255) THEN <<"?">>
     ELSE IF f = Halves(254) THEN <<"O", "N">>
     ELSE IF f = Halves(253) THEN <<"O", "F", "F">>
     ELSE FormatHalf(f)

\* Thermostat: the four temperatures as obtained from the device.
Thermostat(measured, goal, saving, comfort) ==
  [Measured |-> measured, Goal |-> goal, Saving |-> saving, Comfort |-> comfort]

\* The loop of Thermostat.State over vals from index i on, state being the
\* value of the variable state so far.
RECURSIVE StateLoop(_, _, _)
StateLoop(vals, i, state) ==
  IF i > Len(vals) THEN state
  ELSE LET r == ParseFloat(vals[i])
       IN IF ~r.ok THEN StateLoop(vals, i + 1, state)
          ELSE IF r.f < Halves(253) \/ r.f = Halves(254)
               THEN StateLoop(vals, i + 1, 1)
          ELSE IF r.f = Halves(253) THEN 0
          ELSE IF r.f >= Halves(255) THEN 0 - 1
          ELSE StateLoop(vals, i + 1, state)

\* State() that scans Goal before Measured.
ThermostatState_GoalFirst(t) == StateLoop(<<t.Goal, t.Measured, t.Saving, t.Comfort>>, 1, 0 - 1)

\* State() that returns -1 as soon as any value is 255 or more.
ThermostatState_UndefinedWins(t) ==
  IF \E raw \in {t.Measured, t.Goal, t.Saving, t.Comfort} :
       ParseFloat(raw).ok /\ ParseFloat(raw).f >= Halves(255)
  THEN 0 - 1
  ELSE StateLoop(<<t.Measured, t.Goal, t.Saving, t.Comfort>>, 1, 0 - 1)

\* Thermostat.State()
ThermostatState(t) == StateLoop(<<t.Measured, t.Goal, t.Saving, t.Comfort>>, 1, 0 - 1)

\* Raw temperatures: not a number, below every range, regular, above the
\* ranges, the special values and values beyond them.
RawValues ==
  { <<"x">>, <<"-", "3">>, <<"3">>, <<"4", "7">>, <<"1", "1", "2">>,
    <<"2", "5", "3">>, <<"2", "5", "3", ".", "5">>, <<"2", "5", "4">>,
    <<"2", "5", "5">>, <<"3", "5", "5">> }

\* ----------------------------------------------------------------- state
Calls == {1, 2}
Clients == {1, 2}

VARIABLES
  password,       \* Config.Login.Password
  pki,            \* Config.Pki
  tlsConfig,      \* the TLSClientConfig of the transport of the HTTPClient
  offered,        \* the answers the device may give in this run
  thermostat,     \* a Thermostat
  called,         \* the method of the Thermostat called last, or "none"
  text,           \* the string the formatter called last returned
  state,          \* the number State() returned last
  threads,        \* the calls that run
  clientOf,       \* the Client each call is made on
  heap,           \* the SessionInfo records, by address
  nextId,         \* the address of the next record constructed
  clientSession,  \* Client.SessionInfo: an address, 0 for nil
  pc,             \* where each call stands
  local,          \* the locals of each call
  obs             \* what each call has done so far

vars == <<password, pki, tlsConfig, offered, thermostat, called, text, state, threads, clientOf, heap, nextId, clientSession, pc, local, obs>>

\* What no step of a Login changes.
config == <<password, pki, tlsConfig, offered, thermostat, called, text, state,
            threads, clientOf>>

\* Everything but the results of the Thermostat methods.
login == <<password, pki, tlsConfig, offered, thermostat, threads, clientOf,
           heap, nextId, clientSession, pc, local, obs>>

Addresses == 1..MaxLogins

NoLocal == [challengeResponse |-> <<>>, sid |-> "", err |-> Nil]

NoObs ==
  [made |-> 0,             \* address of the record this call constructed
   fetches |-> 0,          \* challenge fetches issued
   submits |-> 0,          \* credential submissions issued
   received |-> FALSE,     \* the fetch delivered a challenge
   got |-> ZeroSessionInfo,\* the record decoded from the fetch
   hasher |-> "none",      \* the hasher that ran: "pbkdf2", "md5"
   computed |-> FALSE,     \* a response was computed
   elapsed |-> 0,          \* seconds since the challenge was received
   sleepLeft |-> 0,        \* seconds of time.Sleep still to pass
   sleeps |-> 0,           \* calls of time.Sleep
   trace |-> <<>>,         \* the handshake events so far, in order
   posted |-> <<>>,        \* the response submitted
   waitedAtPost |-> 0,     \* elapsed when the submission was issued
   sidBefore |-> "",       \* SessionInfo.SID when the submission was issued
   reply |-> Reply(FALSE, FALSE, StatusOK, FALSE, <<>>, 0, "")]
                           \* the answer to the submission

\* No method of the Thermostat has been called.
NothingCalled ==
  /\ called = "none"
  /\ text = <<>>
  /\ state = 0

\* The zero value of Thermostat.
ZeroThermostat == Thermostat(<<>>, <<>>, <<>>, <<>>)

\* A client right after NewClientFromConfig: SessionInfo is nil, no call runs.
NoSessionYet ==
  /\ heap = [a \in Addresses |-> ZeroSessionInfo]
  /\ nextId = 1
  /\ clientSession = [c \in Clients |-> 0]
  /\ pc = [p \in Calls |-> "idle"]
  /\ local = [p \in Calls |-> NoLocal]
  /\ obs = [p \in Calls |-> NoObs]

\* NewClientFromConfig(cfg): the client, its transport configured by
\* tlsConfigFrom, no session yet.
Init ==
  /\ password \in Passwords
  /\ pki \in Pkis
  /\ tlsConfig = tlsConfigFrom(pki)
  /\ offered = GetReplies \cup PostReplies
  /\ threads = {1}
  /\ clientOf = [p \in Calls |-> 1]
  /\ NoSessionYet
  /\ thermostat = ZeroThermostat
  /\ NothingCalled

\* The answers of the device in the runs with two concurrent calls: a failed
\* round trip, a legacy and a modern challenge, each with and without a
\* BlockTime, and a sentinel and two other session ids.
ConcurrentReplies ==
  { Reply(FALSE, FALSE, StatusOK, FALSE, <<>>, 0, "") }
  \cup { Reply(TRUE, TRUE, StatusOK, TRUE, ch, bt, ZeroSID) :
           ch \in { <<"1", "a">>,
                    <<"2", "$", "1", "$", "a", "b", "$", "2", "$", "c", "d">> },
           bt \in {0, 1} }
  \cup { Reply(TRUE, TRUE, StatusOK, TRUE, <<>>, 0, s) :
           s \in { ZeroSID, "0000000000000001", "a1b2c3d4e5f60718" } }

\* Two clients built by NewClientFromConfig from one configuration, one call
\* running on each.
InitParallel ==
  /\ password = <<"p", "w">>
  /\ pki = Pki(FALSE, CertFile(TRUE, TRUE))
  /\ tlsConfig = tlsConfigFrom(pki)
  /\ offered = ConcurrentReplies
  /\ threads = Calls
  /\ clientOf = [p \in Calls |-> p]
  /\ NoSessionYet
  /\ thermostat = ZeroThermostat
  /\ NothingCalled

\* One client, two calls of Login running on it at the same time.
InitShared ==
  /\ password = <<"p", "w">>
  /\ pki = Pki(FALSE, CertFile(TRUE, TRUE))
  /\ tlsConfig = tlsConfigFrom(pki)
  /\ offered = ConcurrentReplies
  /\ threads = Calls
  /\ clientOf = [p \in Calls |-> 1]
  /\ NoSessionYet
  /\ thermostat = ZeroThermostat
  /\ NothingCalled

\* client.SessionInfo of the client call p is made on.
Session(p) == heap[clientSession[clientOf[p]]]

InFlight(p) == pc[p] \in {"compute", "block", "sleeping", "send", "store", "check"}

\* ---------------------------------------------------------------- actions
\* A caller enters Client.Login.
Login(p) ==
  /\ p \in threads
  /\ pc[p] \in {"idle", "done"}
  /\ nextId + Cardinality({q \in Calls : pc[q] = "obtain"}) <= MaxLogins
  /\ pc' = [pc EXCEPT ![p] = "obtain"]
  /\ local' = [local EXCEPT ![p] = NoLocal]
  /\ obs' = [obs EXCEPT ![p] = NoObs]
  /\ UNCHANGED <<config, heap, nextId, clientSession>>

\* ObtainChallenge keeping the session record in one place for all clients.
ObtainChallenge_OneSession(p) ==
  /\ pc[p] = "obtain"
  /\ \E reply \in GetReplies \cap offered :
       LET r == obtainChallenge(reply)
       IN /\ nextId' = nextId + 1
          /\ IF r.err # Nil
             THEN /\ local' = [local EXCEPT ![p].err =
                                 Wrapf(r.err, "unable to obtain login challenge")]
                  /\ pc' = [pc EXCEPT ![p] = "done"]
                  /\ obs' = [obs EXCEPT ![p].made = nextId, ![p].fetches = @ + 1,
                                        ![p].trace = @ \o <<"fetch">>]
                  /\ UNCHANGED <<heap, clientSession>>
             ELSE /\ heap' = [a \in Addresses |->
                               IF a = nextId THEN r.sessionInfo ELSE ZeroSessionInfo]
                  /\ clientSession' = [c \in Clients |-> nextId]
                  /\ pc' = [pc EXCEPT ![p] = "compute"]
                  /\ obs' = [obs EXCEPT ![p].made = nextId, ![p].fetches = @ + 1,
                                        ![p].received = TRUE,
                                        ![p].trace = @ \o <<"fetch", "stored">>,
                                        ![p].got = r.sessionInfo]
                  /\ UNCHANGED local
  /\ UNCHANGED config

\* Login, lines 76-80: obtainChallenge; on an error Login returns it wrapped,
\* otherwise the record becomes client.SessionInfo.
ObtainChallenge(p) ==
  /\ pc[p] = "obtain"
  /\ \E reply \in GetReplies \cap offered :
       LET r == obtainChallenge(reply)
           c == clientOf[p]
           old == clientSession[c]
       IN /\ nextId' = nextId + 1
          /\ IF r.err # Nil
             THEN /\ local' = [local EXCEPT ![p].err =
                                 Wrapf(r.err, "unable to obtain login challenge")]
                  /\ pc' = [pc EXCEPT ![p] = "done"]
                  /\ obs' = [obs EXCEPT ![p].made = nextId, ![p].fetches = @ + 1,
                                        ![p].trace = @ \o <<"fetch">>]
                  /\ UNCHANGED <<heap, clientSession>>
             ELSE /\ heap' = [a \in Addresses |->
                               IF a = nextId THEN r.sessionInfo
                               ELSE IF a = old THEN ZeroSessionInfo
                               ELSE heap[a]]
                  /\ clientSession' = [clientSession EXCEPT ![c] = nextId]
                  /\ pc' = [pc EXCEPT ![p] = "compute"]
                  /\ obs' = [obs EXCEPT ![p].made = nextId, ![p].fetches = @ + 1,
                                        ![p].received = TRUE,
                                        ![p].trace = @ \o <<"fetch", "stored">>,
                                        ![p].got = r.sessionInfo]
                  /\ UNCHANGED local
  /\ UNCHANGED config

\* ComputeResponse falling back to the MD5 hasher when the PBKDF2 hasher
\* fails.
ComputeResponse_Fallback(p) ==
  /\ pc[p] = "compute"
  /\ LET r == calculatePBKDF2Response(Session(p).Challenge, password)
     IN IF Session(p).IsPBKDF2 /\ r.ok
        THEN /\ local' = [local EXCEPT ![p].challengeResponse = r.response]
             /\ obs' = [obs EXCEPT ![p].hasher = "pbkdf2", ![p].computed = TRUE,
                                   ![p].trace = @ \o <<"computed">>]
        ELSE /\ local' = [local EXCEPT ![p].challengeResponse =
                            calculateMD5Response(Session(p).Challenge, password)]
             /\ obs' = [obs EXCEPT ![p].hasher = "md5", ![p].computed = TRUE,
                                   ![p].trace = @ \o <<"computed">>]
  /\ pc' = [pc EXCEPT ![p] = "block"]
  /\ UNCHANGED <<config, heap, nextId, clientSession>>

\* ComputeResponse with the block-time wait placed before the computation of
\* the response.
ComputeResponse_WaitFirst(p) ==
  /\ pc[p] = "compute"
  /\ LET waited == IF Session(p).BlockTime > 0
                   THEN [obs EXCEPT ![p].sleeps = @ + 1,
                                    ![p].trace = @ \o <<"sleep">>]
                   ELSE obs
     IN IF Session(p).IsPBKDF2
        THEN LET r == calculatePBKDF2Response(Session(p).Challenge, password)
             IN IF ~r.ok
                THEN /\ local' = [local EXCEPT ![p].err =
                          Wrapf(Wrapf(Errorf(r.msg, <<>>),
                                      "failed to calculate PBKDF2 response"),
                                "unable to solve login challenge")]
                     /\ pc' = [pc EXCEPT ![p] = "done"]
                     /\ obs' = [waited EXCEPT ![p].hasher = "pbkdf2"]
                ELSE /\ local' = [local EXCEPT ![p].challengeResponse = r.response]
                     /\ pc' = [pc EXCEPT ![p] = "send"]
                     /\ obs' = [waited EXCEPT ![p].hasher = "pbkdf2",
                                              ![p].computed = TRUE,
                                              ![p].trace = @ \o <<"computed">>]
        ELSE /\ local' = [local EXCEPT ![p].challengeResponse =
                            calculateMD5Response(Session(p).Challenge, password)]
             /\ pc' = [pc EXCEPT ![p] = "send"]
             /\ obs' = [waited EXCEPT ![p].hasher = "md5", ![p].computed = TRUE,
                                      ![p].trace = @ \o <<"computed">>]
  /\ UNCHANGED <<config, heap, nextId, clientSession>>

\* solveChallenge, lines 104-115: the response of the hasher the flag selects.
ComputeResponse(p) ==
  /\ pc[p] = "compute"
  /\ IF Session(p).IsPBKDF2
     THEN LET r == calculatePBKDF2Response(Session(p).Challenge, password)
          IN IF ~r.ok
             THEN /\ local' = [local EXCEPT ![p].err =
                       Wrapf(Wrapf(Errorf(r.msg, <<>>),
                                   "failed to calculate PBKDF2 response"),
                             "unable to solve login challenge")]
                  /\ pc' = [pc EXCEPT ![p] = "done"]
                  /\ obs' = [obs EXCEPT ![p].hasher = "pbkdf2"]
             ELSE /\ local' = [local EXCEPT ![p].challengeResponse = r.response]
                  /\ pc' = [pc EXCEPT ![p] = "block"]
                  /\ obs' = [obs EXCEPT ![p].hasher = "pbkdf2", ![p].computed = TRUE,
                                   ![p].trace = @ \o <<"computed">>]
     ELSE /\ local' = [local EXCEPT ![p].challengeResponse =
                         calculateMD5Response(Session(p).Challenge, password)]
          /\ pc' = [pc EXCEPT ![p] = "block"]
          /\ obs' = [obs EXCEPT ![p].hasher = "md5", ![p].computed = TRUE,
                                   ![p].trace = @ \o <<"computed">>]
  /\ UNCHANGED <<config, heap, nextId, clientSession>>

\* BlockTimeWait sleeping only for a BlockTime above one second.
BlockTimeWait_OffByOne(p) ==
  /\ pc[p] = "block"
  /\ IF Session(p).BlockTime > 1
     THEN /\ pc' = [pc EXCEPT ![p] = "sleeping"]
          /\ obs' = [obs EXCEPT ![p].sleeps = @ + 1,
                                ![p].trace = @ \o <<"sleep">>,
                                ![p].sleepLeft = Session(p).BlockTime]
     ELSE /\ pc' = [pc EXCEPT ![p] = "send"]
          /\ obs' = obs
  /\ UNCHANGED <<config, heap, nextId, clientSession, local>>

\* solveChallenge, lines 117-120: time.Sleep for BlockTime seconds when
\* BlockTime is positive.
BlockTimeWait(p) ==
  /\ pc[p] = "block"
  /\ IF Session(p).BlockTime > 0
     THEN /\ pc' = [pc EXCEPT ![p] = "sleeping"]
          /\ obs' = [obs EXCEPT ![p].sleeps = @ + 1,
                                ![p].trace = @ \o <<"sleep">>,
                                ![p].sleepLeft = Session(p).BlockTime]
     ELSE /\ pc' = [pc EXCEPT ![p] = "send"]
          /\ obs' = obs
  /\ UNCHANGED <<config, heap, nextId, clientSession, local>>

\* time.Sleep returns once its duration has passed.
Wake(p) ==
  /\ pc[p] = "sleeping"
  /\ obs[p].sleepLeft = 0
  /\ pc' = [pc EXCEPT ![p] = "send"]
  /\ UNCHANGED <<config, heap, nextId, clientSession, local, obs>>

\* One second passes.
Tick ==
  /\ \E p \in Calls :
       InFlight(p) /\ (obs[p].elapsed < MaxBlockTime \/ obs[p].sleepLeft > 0)
  /\ obs' = [p \in Calls |->
               IF InFlight(p)
               THEN [obs[p] EXCEPT
                       !.elapsed = IF @ < MaxBlockTime THEN @ + 1 ELSE @,
                       !.sleepLeft = IF @ > 0 THEN @ - 1 ELSE @]
               ELSE obs[p]]
  /\ UNCHANGED <<config, heap, nextId, clientSession, pc, local>>

\* SendResponse storing the returned session id before looking at the error.
SendResponse_StoreFirst(p) ==
  /\ pc[p] = "send"
  /\ \E reply \in PostReplies \cap offered :
       LET r == sendResponse(reply)
       IN /\ obs' = [obs EXCEPT ![p].submits = @ + 1,
                                ![p].posted = local[p].challengeResponse,
                                ![p].waitedAtPost = obs[p].elapsed,
                                ![p].sidBefore = Session(p).SID,
                                ![p].reply = reply,
                                ![p].trace = @ \o <<"submit">>]
          /\ heap' = [heap EXCEPT ![clientSession[clientOf[p]]].SID = r.sid]
          /\ IF r.err # Nil
             THEN /\ local' = [local EXCEPT ![p].err =
                       Wrapf(Wrapf(r.err, "failed to login"),
                             "unable to solve login challenge")]
                  /\ pc' = [pc EXCEPT ![p] = "done"]
             ELSE /\ local' = [local EXCEPT ![p].sid = r.sid]
                  /\ pc' = [pc EXCEPT ![p] = "store"]
  /\ UNCHANGED <<config, nextId, clientSession>>

\* solveChallenge, lines 122-125: sendResponse; on an error solveChallenge
\* returns it wrapped and Login wraps it again.
SendResponse(p) ==
  /\ pc[p] = "send"
  /\ \E reply \in PostReplies \cap offered :
       LET r == sendResponse(reply)
       IN /\ obs' = [obs EXCEPT ![p].submits = @ + 1,
                                ![p].posted = local[p].challengeResponse,
                                ![p].waitedAtPost = obs[p].elapsed,
                                ![p].sidBefore = Session(p).SID,
                                ![p].reply = reply,
                                ![p].trace = @ \o <<"submit">>]
          /\ IF r.err # Nil
             THEN /\ local' = [local EXCEPT ![p].err =
                       Wrapf(Wrapf(r.err, "failed to login"),
                             "unable to solve login challenge")]
                  /\ pc' = [pc EXCEPT ![p] = "done"]
             ELSE /\ local' = [local EXCEPT ![p].sid = r.sid]
                  /\ pc' = [pc EXCEPT ![p] = "store"]
  /\ UNCHANGED <<config, heap, nextId, clientSession>>

\* solveChallenge, line 127: client.SessionInfo.SID = sid
StoreSID(p) ==
  /\ pc[p] = "store"
  /\ heap' = [heap EXCEPT ![clientSession[clientOf[p]]].SID = local[p].sid]
  /\ pc' = [pc EXCEPT ![p] = "check"]
  /\ UNCHANGED <<config, nextId, clientSession, local, obs>>

\* CheckSID rejecting the all-zero session id only.
CheckSID_OnlyZero(p) ==
  /\ pc[p] = "check"
  /\ IF Session(p).SID = ZeroSID
     THEN local' = [local EXCEPT ![p].err =
            Wrapf(Errorf("challenge not solved, got '%s' as session id, check login data",
                         <<Session(p).SID>>),
                  "unable to solve login challenge")]
     ELSE local' = [local EXCEPT ![p].err = Nil]
  /\ pc' = [pc EXCEPT ![p] = "done"]
  /\ obs' = [obs EXCEPT ![p].trace = @ \o <<"validate">>]
  /\ UNCHANGED <<config, heap, nextId, clientSession>>

\* CheckSID submitting the response again after a sentinel session id.
CheckSID_Retry(p) ==
  /\ pc[p] = "check"
  /\ IF Session(p).SID = ZeroSID \/ Session(p).SID = ""
     THEN /\ pc' = [pc EXCEPT ![p] = IF obs[p].submits < 2 THEN "send" ELSE "done"]
          /\ local' = [local EXCEPT ![p].err =
               Wrapf(Errorf("challenge not solved, got '%s' as session id, check login data",
                            <<Session(p).SID>>),
                     "unable to solve login challenge")]
     ELSE /\ pc' = [pc EXCEPT ![p] = "done"]
          /\ local' = [local EXCEPT ![p].err = Nil]
  /\ obs' = [obs EXCEPT ![p].trace = @ \o <<"validate">>]
  /\ UNCHANGED <<config, heap, nextId, clientSession>>

\* solveChallenge, lines 128-132, and the return of Login, lines 83-88.
CheckSID(p) ==
  /\ pc[p] = "check"
  /\ IF Session(p).SID = ZeroSID \/ Session(p).SID = ""
     THEN local' = [local EXCEPT ![p].err =
            Wrapf(Errorf("challenge not solved, got '%s' as session id, check login data",
                         <<Session(p).SID>>),
                  "unable to solve login challenge")]
     ELSE local' = [local EXCEPT ![p].err = Nil]
  /\ pc' = [pc EXCEPT ![p] = "done"]
  /\ obs' = [obs EXCEPT ![p].trace = @ \o <<"validate">>]
  /\ UNCHANGED <<config, heap, nextId, clientSession>>

Next ==
  \/ \E p \in Calls : Login(p)
  \/ \E p \in Calls : ObtainChallenge(p)
  \/ \E p \in Calls : ComputeResponse(p)
  \/ \E p \in Calls : BlockTimeWait(p)
  \/ \E p \in Calls : Wake(p)
  \/ Tick
  \/ \E p \in Calls : SendResponse(p)
  \/ \E p \in Calls : StoreSID(p)
  \/ \E p \in Calls : CheckSID(p)

Spec == Init /\ [][Next]_vars

\* A Thermostat decoded from the device list; no Login runs.
InitThermostat ==
  /\ password = <<"p", "w">>
  /\ pki = Pki(FALSE, CertFile(TRUE, TRUE))
  /\ tlsConfig = tlsConfigFrom(pki)
  /\ offered = {}
  /\ threads = {}
  /\ clientOf = [p \in Calls |-> 1]
  /\ NoSessionYet
  /\ thermostat \in { Thermostat(m, g, s, c) :
                        m \in RawValues, g \in RawValues,
                        s \in RawValues, c \in RawValues }
  /\ NothingCalled

\* Thermostat.FmtMeasuredTemperature()
FmtMeasuredTemperature ==
  /\ called' = "FmtMeasuredTemperature"
  /\ text' = fmtTemperatureHkr(thermostat.Measured, Halves(0), Halves(100))
  /\ UNCHANGED <<login, state>>

\* Thermostat.FmtGoalTemperature()
FmtGoalTemperature ==
  /\ called' = "FmtGoalTemperature"
  /\ text' = fmtTemperatureHkr(thermostat.Goal, Halves(16), Halves(56))
  /\ UNCHANGED <<login, state>>

\* Thermostat.FmtSavingTemperature()
FmtSavingTemperature ==
  /\ called' = "FmtSavingTemperature"
  /\ text' = fmtTemperatureHkr(thermostat.Saving, Halves(16), Halves(56))
  /\ UNCHANGED <<login, state>>

\* Thermostat.FmtComfortTemperature()
FmtComfortTemperature ==
  /\ called' = "FmtComfortTemperature"
  /\ text' = fmtTemperatureHkr(thermostat.Comfort, Halves(16), Halves(56))
  /\ UNCHANGED <<login, state>>

\* Thermostat.State()
State ==
  /\ called' = "State"
  /\ state' = ThermostatState(thermostat)
  /\ UNCHANGED <<login, text>>

NextThermostat ==
  \/ FmtMeasuredTemperature
  \/ FmtGoalTemperature
  \/ FmtSavingTemperature
  \/ FmtComfortTemperature
  \/ State

SpecThermostat == InitThermostat /\ [][NextThermostat]_vars

SpecParallel == InitParallel /\ [][Next]_vars

SpecShared == InitShared /\ [][Next]_vars

\* ------------------------------------------------------------ vocabulary
Done(p) == pc[p] = "done"

\* The error Login returned.
Err(p) == local[p].err

Authenticated(p) == Done(p) /\ Err(p) = Nil

Failed(p) == Done(p) /\ Err(p) # Nil

AuthenticationRejected(e) ==
  "challenge not solved, got '%s' as session id, check login data" \in Range(e.chain)

MalformedChallenge(e) == "failed to calculate PBKDF2 response" \in Range(e.chain)

TransportError(e) ==
  \/ "unable to obtain login challenge" \in Range(e.chain)
  \/ "failed to login" \in Range(e.chain)

\* The credential submission of call p was answered with a decodable body.
Answered(p) ==
  /\ obs[p].submits > 0
  /\ obs[p].reply.net /\ obs[p].reply.read /\ obs[p].reply.xml

\* The credential submission of call p failed in transport or decoding.
SubmissionFailed(p) == obs[p].submits > 0 /\ ~Answered(p)

\* The raw challenge begins with the two characters "2$".
BeginsModern(ch) == Len(ch) >= 2 /\ ch[1] = "2" /\ ch[2] = "$"

\* The $-delimited fields of a challenge, counted by its separators.
FieldCount(ch) == Cardinality({i \in 1..Len(ch) : ch[i] = "$"}) + 1

IsNumber(s) ==
  /\ s # <<>>
  /\ \A i \in 1..Len(s) : IsDigit(s[i]) \/ (i = 1 /\ Len(s) > 1 /\ s[1] \in {"+", "-"})

IsHex(s) == Len(s) % 2 = 0 /\ \A i \in 1..Len(s) : IsHexChar(s[i])

\* One of the first five fields of a modern-prefixed challenge does not
\* decode: too few fields, a non-numeric iteration count or a bad salt.
FailsDecoding(ch) ==
  \/ FieldCount(ch) < 5
  \/ LET f == Split(ch, "$")
     IN ~IsNumber(f[2]) \/ ~IsHex(f[3]) \/ ~IsNumber(f[4]) \/ ~IsHex(f[5])

\* 2$iter1$salt1$iter2$salt2 with positive iteration counts and hex salts.
WellFormed(ch) ==
  /\ BeginsModern(ch)
  /\ FieldCount(ch) = 5
  /\ LET f == Split(ch, "$")
     IN /\ IsNumber(f[2]) /\ Atoi(f[2]).val >= 1
        /\ IsNumber(f[4]) /\ Atoi(f[4]).val >= 1
        /\ IsHex(f[3]) /\ IsHex(f[5])

\* The part of a response before its first "$".
BeforeDollar(r) == SubSeq(r, 1, IndexOf(r, "$") - 1)

\* ------------------------------------------------------------------ C1
\* C1: when the credential submission returns a session id s, the Login ends
\* in failure with a "challenge not solved" error carrying s if s is "" or
\* "0000000000000000", and otherwise ends without error with s stored as the
\* session id of the client.
C1_SessionIdValidated ==
  \A p \in Calls :
    (Done(p) /\ Answered(p)) =>
      LET s == obs[p].reply.SID
      IN IF s = "" \/ s = "0000000000000000"
         THEN Failed(p) /\ AuthenticationRejected(Err(p)) /\ Err(p).arg = <<s>>
         ELSE Authenticated(p) /\ Session(p).SID = s

C1_Witness ==
  \E p \in Calls :
    /\ Done(p) /\ Answered(p)
    /\ obs[p].reply.SID = "0000000000000000"
    /\ AuthenticationRejected(Err(p))

\* ------------------------------------------------------------------ C2
\* C2: with BlockTime 0 the call never sleeps; with a positive BlockTime the
\* call is not at or past the credential submission before BlockTime seconds
\* have passed since the challenge was received.
C2_BlockTimeHonoured ==
  \A p \in Calls :
    obs[p].received =>
      /\ obs[p].got.BlockTime = 0 => obs[p].sleeps = 0 /\ pc[p] # "sleeping"
      /\ obs[p].got.BlockTime > 0 =>
           /\ pc[p] \in {"send", "store", "check"} =>
                obs[p].elapsed >= obs[p].got.BlockTime
           /\ obs[p].submits > 0 => obs[p].waitedAtPost >= obs[p].got.BlockTime

C2_Witness ==
  \E p \in Calls :
    /\ obs[p].received /\ obs[p].got.BlockTime = MaxBlockTime
    /\ obs[p].submits = 1 /\ obs[p].sleeps = 1
    /\ obs[p].waitedAtPost = MaxBlockTime

\* ------------------------------------------------------------------ C3
\* C3: for a challenge that begins with "2$" and fails structural decoding,
\* the MD5 hasher never runs, no response is computed, nothing is submitted,
\* and the Login ends with the "failed to calculate PBKDF2 response" error.
C3_MalformedNeverLegacy ==
  \A p \in Calls :
    (obs[p].received /\ BeginsModern(obs[p].got.Challenge)
       /\ FailsDecoding(obs[p].got.Challenge)) =>
      /\ obs[p].hasher # "md5"
      /\ ~obs[p].computed
      /\ obs[p].submits = 0
      /\ pc[p] \in {"compute", "done"}
      /\ Done(p) => Failed(p) /\ MalformedChallenge(Err(p))

C3_Witness ==
  \E p \in Calls :
    /\ Done(p) /\ obs[p].received
    /\ obs[p].got.Challenge = <<"2", "$", "1", "$", "a", "b">>
    /\ MalformedChallenge(Err(p))

\* ------------------------------------------------------------------ C4
\* C4: for a well-formed modern challenge 2$iter1$salt1$iter2$salt2 the
\* computed response is hex(salt2) + "$" + hex(KDF(KDF(password, salt1,
\* iter1), salt2, iter2)), the second stage keyed by the raw bytes of the
\* first.
C4_TwoStageResponse ==
  \A p \in Calls :
    (obs[p].computed /\ obs[p].hasher = "pbkdf2"
       /\ WellFormed(obs[p].got.Challenge)) =>
      LET f == Split(obs[p].got.Challenge, "$")
          salt1 == DecodeString(f[3]).bytes
          salt2 == DecodeString(f[5]).bytes
          hash1 == Key(ToBytes(password), salt1, Atoi(f[2]).val, 32)
          hash2 == Key(hash1, salt2, Atoi(f[4]).val, 32)
      IN local[p].challengeResponse =
           EncodeToString(salt2) \o <<"$">> \o EncodeToString(hash2)

\* ------------------------------------------------------------------ C5
\* C5: for a well-formed modern challenge the part of the response before
\* the "$" is the lowercase hex encoding of the decoded salt2 bytes.
C5_SaltPrefixLowercase ==
  \A p \in Calls :
    (obs[p].computed /\ obs[p].hasher = "pbkdf2"
       /\ WellFormed(obs[p].got.Challenge)) =>
      BeforeDollar(local[p].challengeResponse) =
        EncodeToString(DecodeString(Split(obs[p].got.Challenge, "$")[5]).bytes)

\* ------------------------------------------------------------------ C6
\* C6: for a challenge c that does not begin with "2$" the response is
\* computed (the legacy path does not fail) and the response submitted is
\* c + "-" + hex(md5(c + "-" + password)).
C6_LegacyResponse ==
  \A p \in Calls :
    (obs[p].received /\ ~BeginsModern(obs[p].got.Challenge)) =>
      LET c == obs[p].got.Challenge
          expected == c \o <<"-">>
                        \o EncodeToString(Md5Sum(ToBytes(c \o <<"-">> \o password)))
      IN /\ pc[p] # "compute" => obs[p].computed /\ ~MalformedChallenge(Err(p))
         /\ obs[p].computed => local[p].challengeResponse = expected
         /\ obs[p].submits > 0 => obs[p].posted = expected

C6_Witness ==
  \E p \in Calls :
    /\ obs[p].received /\ obs[p].got.Challenge = <<"1", "a">>
    /\ obs[p].submits = 1
    /\ Len(obs[p].posted) > 3

\* ------------------------------------------------------------------ C7
\* C7: once a challenge is received, IsPBKDF2 is true exactly when the raw
\* challenge begins with "2$", and the hasher that runs is the modern one
\* exactly when the flag is true.
C7_AlgorithmSelector ==
  \A p \in Calls :
    obs[p].received =>
      /\ obs[p].got.IsPBKDF2 <=> BeginsModern(obs[p].got.Challenge)
      /\ obs[p].hasher # "none" =>
           (obs[p].hasher = "pbkdf2" <=> obs[p].got.IsPBKDF2)
      /\ ~BeginsModern(obs[p].got.Challenge) => obs[p].hasher # "pbkdf2"

C7_Witness ==
  \E p \in Calls :
    /\ obs[p].received /\ obs[p].got.Challenge = <<"2", "f">>
    /\ obs[p].hasher = "md5"

\* ------------------------------------------------------------------ C8
\* C8: one Login call issues at most one challenge fetch, at most one wait
\* and at most one credential submission; once the submission has yielded a
\* sentinel session id the call is over, in failure.
C8_NoRetry ==
  \A p \in Calls :
    /\ obs[p].fetches <= 1
    /\ obs[p].sleeps <= 1
    /\ obs[p].submits <= 1
    /\ (Answered(p) /\ obs[p].reply.SID \in {"", "0000000000000000"}) =>
         /\ pc[p] \in {"store", "check", "done"}
         /\ Done(p) => Failed(p)

C8_Witness ==
  \E p \in Calls :
    /\ Failed(p) /\ Answered(p)
    /\ obs[p].reply.SID = ""
    /\ obs[p].fetches = 1 /\ obs[p].submits = 1

\* ------------------------------------------------------------------ C9
\* C9: a failed challenge fetch ends the Login with an error and without a
\* response computation, a wait or a submission; a failed credential
\* submission ends the Login with an error and leaves the stored session id
\* as it was before the submission.
C9_TransportFailureEndsAttempt ==
  \A p \in Calls :
    /\ (obs[p].fetches > 0 /\ ~obs[p].received) =>
         /\ Failed(p) /\ TransportError(Err(p))
         /\ obs[p].hasher = "none" /\ ~obs[p].computed
         /\ obs[p].sleeps = 0 /\ obs[p].submits = 0
    /\ SubmissionFailed(p) =>
         /\ Failed(p) /\ TransportError(Err(p))
         /\ Session(p).SID = obs[p].sidBefore

C9_Witness ==
  \E p \in Calls :
    /\ SubmissionFailed(p) /\ Failed(p)
    /\ obs[p].sidBefore = "0000000000000000"
    /\ Session(p).SID = "0000000000000000"

\* ------------------------------------------------------------------ C10
\* C10: a non-2xx answer to the credential submission makes the Login fail
\* with a transport error, whatever its body holds.
C10_Non2xxSubmissionFails ==
  \A p \in Calls :
    (Done(p) /\ obs[p].submits > 0 /\ obs[p].reply.net
       /\ obs[p].reply.status \div 100 # 2) =>
      Failed(p) /\ TransportError(Err(p))

\* ------------------------------------------------------------------ C11
\* C11: once a Login call has returned, with or without an error, the
\* session record the client holds is the one that call constructed.
C11_FreshSessionAfterLogin ==
  \A p \in Calls :
    Done(p) => clientSession[clientOf[p]] = obs[p].made

\* ------------------------------------------------------------------ C12
\* C12: for a challenge that begins with "2$" and does not have exactly five
\* $-delimited fields no response is computed, nothing is submitted and the
\* Login ends with the "failed to calculate PBKDF2 response" error.
C12_FieldCountExact ==
  \A p \in Calls :
    (obs[p].received /\ BeginsModern(obs[p].got.Challenge)
       /\ FieldCount(obs[p].got.Challenge) # 5) =>
      /\ ~obs[p].computed
      /\ obs[p].submits = 0
      /\ Done(p) => Failed(p) /\ MalformedChallenge(Err(p))

\* ------------------------------------------------------------------ C20
\* C20: a modern-prefixed challenge with an iteration count below 1 never
\* yields a response and is never followed by a credential submission.
C20_PositiveIterations ==
  \A p \in Calls :
    (obs[p].received /\ BeginsModern(obs[p].got.Challenge)
       /\ FieldCount(obs[p].got.Challenge) >= 5
       /\ LET f == Split(obs[p].got.Challenge, "$")
          IN \/ IsNumber(f[2]) /\ Atoi(f[2]).val < 1
             \/ IsNumber(f[4]) /\ Atoi(f[4]).val < 1) =>
      /\ ~obs[p].computed
      /\ obs[p].submits = 0

\* ------------------------------------------------------------------ C18
\* The place of a handshake event in the order of the handshake.
Rank(e) ==
  CASE e = "fetch" -> 1
    [] e = "stored" -> 2
    [] e = "computed" -> 3
    [] e = "sleep" -> 4
    [] e = "submit" -> 5
    [] OTHER -> 6

\* C18: the events of a Login occur in the order fetch, challenge stored,
\* response computed, wait, submission, validation, each at most once; a
\* submission is preceded by the receipt of a challenge and the computation
\* of its response, and a Login that fails on a malformed challenge has not
\* waited.
C18_HandshakeOrder ==
  \A p \in Calls :
    LET tr == obs[p].trace
        Has(e) == e \in Range(tr)
    IN /\ \A i, j \in 1..Len(tr) : i < j => Rank(tr[i]) < Rank(tr[j])
       /\ Has("stored") => Has("fetch")
       /\ Has("computed") => Has("stored")
       /\ Has("sleep") => Has("computed")
       /\ Has("submit") => Has("stored") /\ Has("computed") /\ obs[p].received
       /\ Has("submit") <=> obs[p].submits > 0
       /\ Has("validate") => Has("submit")
       /\ (Done(p) /\ MalformedChallenge(Err(p))) =>
            ~Has("sleep") /\ obs[p].sleeps = 0

C18_Witness ==
  \E p \in Calls :
    /\ Done(p)
    /\ obs[p].trace = <<"fetch", "stored", "computed", "sleep", "submit", "validate">>

\* A malformed challenge that came with a positive BlockTime.
C18_MalformedWitness ==
  \E p \in Calls :
    /\ Done(p) /\ MalformedChallenge(Err(p))
    /\ obs[p].got.BlockTime > 0

\* ------------------------------------------------------------------ C14
\* C14: with SkipTLSVerify set, verification is off and no pool of the
\* certificate file is used; otherwise verification is on and the pool of the
\* certificate file is used exactly when the file is readable and holds a PEM
\* certificate, the host's root certificates being used in every other case.
C14_TrustPolicy ==
  /\ tlsConfig.RootCAs \in {HostPool, FilePool}
  /\ pki.SkipTLSVerify =>
       tlsConfig.InsecureSkipVerify /\ tlsConfig.RootCAs = HostPool
  /\ ~pki.SkipTLSVerify =>
       /\ ~tlsConfig.InsecureSkipVerify
       /\ tlsConfig.RootCAs = FilePool <=>
            (pki.CertificateFile.readable /\ pki.CertificateFile.pem)

C14_Witness ==
  /\ ~pki.SkipTLSVerify
  /\ pki.CertificateFile.readable /\ ~pki.CertificateFile.pem
  /\ ~tlsConfig.InsecureSkipVerify
  /\ tlsConfig.RootCAs = HostPool
  /\ \E p \in Calls : Done(p)

\* ------------------------------------------------------------------ C13
\* The response to challenge ch under password pw.
ResponseOf(ch, pw) ==
  IF BeginsModern(ch) THEN calculatePBKDF2Response(ch, pw).response
  ELSE calculateMD5Response(ch, pw)

Sentinel(s) == s = "" \/ s = "0000000000000000"

\* C13: with one call on each of two clients, in every interleaving a call
\* works on the record it constructed itself: its response is the response
\* to the challenge it fetched, it does not submit before its own BlockTime
\* has passed, the session id its client holds after the store is the one
\* its own submission returned, and it succeeds exactly when that id is no
\* sentinel.
C13_IndependentAttempts ==
  \A p \in Calls :
    obs[p].received =>
      /\ clientSession[clientOf[p]] = obs[p].made
      /\ Session(p).Challenge = obs[p].got.Challenge
      /\ Session(p).BlockTime = obs[p].got.BlockTime
      /\ obs[p].computed =>
           local[p].challengeResponse = ResponseOf(obs[p].got.Challenge, password)
      /\ obs[p].submits > 0 =>
           /\ obs[p].posted = ResponseOf(obs[p].got.Challenge, password)
           /\ obs[p].waitedAtPost >= obs[p].got.BlockTime
      /\ obs[p].got.BlockTime = 0 => obs[p].sleeps = 0
      /\ (Answered(p) /\ pc[p] \in {"check", "done"}) =>
           Session(p).SID = obs[p].reply.SID
      /\ (Answered(p) /\ Done(p)) =>
           (Authenticated(p) <=> ~Sentinel(obs[p].reply.SID))

\* Both calls are in the handshake at once, on different challenges and
\* BlockTimes, one of them past its store, the other asleep.
C13_Witness ==
  \E p, q \in Calls :
    /\ clientOf[p] # clientOf[q]
    /\ pc[p] = "check" /\ pc[q] = "sleeping"
    /\ obs[p].got.Challenge # obs[q].got.Challenge
    /\ obs[p].got.BlockTime # obs[q].got.BlockTime
    /\ ~Sentinel(Session(p).SID)

\* ------------------------------------------------------------------ C19
\* C19: with two calls of Login on one client, in every interleaving the
\* response a call submits is the response to the challenge that call
\* fetched, and a call returns nil only if its own submission returned a
\* session id that is no sentinel.
C19_SharedClientAttempts ==
  \A p \in Calls :
    /\ obs[p].submits > 0 =>
         obs[p].posted = ResponseOf(obs[p].got.Challenge, password)
    /\ Authenticated(p) => Answered(p) /\ ~Sentinel(obs[p].reply.SID)

\* ------------------------------------------------------------ thermostat
\* The four values in the order Measured, Goal, Saving, Comfort.
Scanned == <<thermostat.Measured, thermostat.Goal, thermostat.Saving, thermostat.Comfort>>

Parses(raw) == ParseFloat(raw).ok

\* The parsed value is the number n.
Is(raw, n) == Parses(raw) /\ ParseFloat(raw).f = Halves(n)

AtLeast(raw, n) == Parses(raw) /\ ParseFloat(raw).f >= Halves(n)

Below(raw, n) == Parses(raw) /\ ParseFloat(raw).f < Halves(n)

Above(raw, n) == Parses(raw) /\ ParseFloat(raw).f > Halves(n)

\* The positions holding 253, or 255 and more.
Deciding == { i \in 1..4 : Is(Scanned[i], 253) \/ AtLeast(Scanned[i], 255) }

FirstDeciding == CHOOSE i \in Deciding : \A j \in Deciding : i <= j

Formatters ==
  {"FmtMeasuredTemperature", "FmtGoalTemperature", "FmtSavingTemperature",
   "FmtComfortTemperature"}

\* The raw value the formatter called last has formatted.
Formatted ==
  CASE called = "FmtMeasuredTemperature" -> thermostat.Measured
    [] called = "FmtGoalTemperature" -> thermostat.Goal
    [] called = "FmtSavingTemperature" -> thermostat.Saving
    [] called = "FmtComfortTemperature" -> thermostat.Comfort

\* C16: each of the four formatters returns "" for a raw value that does not
\* parse and "?", "ON", "OFF" for the raw values 255, 254, 253, whatever its
\* limits are.
C16_SpecialValues ==
  called \in Formatters =>
    /\ ~Parses(Formatted) => text = <<>>
    /\ Is(Formatted, 255) => text = <<"?">>
    /\ Is(Formatted, 254) => text = <<"O", "N">>
    /\ Is(Formatted, 253) => text = <<"O", "F", "F">>

\* FmtGoalTemperature, whose upper limit is 56, has returned "OFF" for 253.
C16_Witness ==
  /\ called = "FmtGoalTemperature"
  /\ Is(thermostat.Goal, 253)
  /\ text = <<"O", "F", "F">>

\* C17: a raw value that parses and is none of 253, 254, 255 formats to half
\* of the value clamped to the formatter's range: Goal, Saving and Comfort
\* give "28" above 56 and "8" below 16, Measured gives "50" above 100 and
\* "0" below 0, and a value within the range gives its half.
C17_ClampedHalf ==
  (/\ called \in Formatters
   /\ Parses(Formatted)
   /\ ~Is(Formatted, 253) /\ ~Is(Formatted, 254) /\ ~Is(Formatted, 255)) =>
    IF called = "FmtMeasuredTemperature"
    THEN /\ Above(Formatted, 100) => text = <<"5", "0">>
         /\ Below(Formatted, 0) => text = <<"0">>
         /\ (AtLeast(Formatted, 0) /\ ~Above(Formatted, 100))
              => text = FormatHalf(ParseFloat(Formatted).f)
    ELSE /\ Above(Formatted, 56) => text = <<"2", "8">>
         /\ Below(Formatted, 16) => text = <<"8">>
         /\ (AtLeast(Formatted, 16) /\ ~Above(Formatted, 56))
              => text = FormatHalf(ParseFloat(Formatted).f)

\* The positions holding 253.
Off == { i \in 1..4 : Is(Scanned[i], 253) }

FirstOff == CHOOSE i \in Off : \A j \in Off : i <= j

\* A value of 255 or more is scanned before the first 253.
UndefinedBeforeOff == \E j \in 1..4 : j < FirstOff /\ AtLeast(Scanned[j], 255)

====
